---------------------------- MODULE Spec2Model ----------------------------
(***************************************************************************)
(* Model of server.py: a static file server for local development whose   *)
(* handler, NoCacheHandler, overrides end_headers to add three no-cache    *)
(* headers.  The script changes to its own directory, prints a start-up    *)
(* message, builds http.server.HTTPServer(('', 8000), NoCacheHandler) and  *)
(* calls serve_forever().                                                  *)
(*                                                                         *)
(* Everything except end_headers is inherited: the definitions that carry  *)
(* a class prefix or the name of a library method are translated from      *)
(* CPython 3.11's Lib/http/server.py and Lib/socketserver.py, which the    *)
(* script pulls in at "class NoCacheHandler(SimpleHTTPRequestHandler)" and *)
(* "HTTPServer(...).serve_forever()".                                      *)
(*                                                                         *)
(* A response is the sequence of items written to wfile: a status line,    *)
(* header lines, the blank line that ends the header block, and a body.    *)
(* Socket semantics are POSIX: bind() on a port another socket listens on  *)
(* fails with EADDRINUSE, also with SO_REUSEADDR set.                      *)
(***************************************************************************)
EXTENDS Integers, Sequences, FiniteSets, TLC

(***************************************************************************)
(* Bounds of the model.                                                    *)
(***************************************************************************)
\* connections that may wait in the listen queue of the model
MaxPending == 1

(***************************************************************************)
(* Program constants.                                                      *)
(***************************************************************************)
PORT == 8000
HOST == ""
StartupMessage == "Server running at http://localhost:8000"

CacheControlValue == "no-store, no-cache, must-revalidate, max-age=0"
PragmaValue == "no-cache"
ExpiresValue == "0"

\* http.server.BaseHTTPRequestHandler.protocol_version / default_request_version
protocol_version == "HTTP/1.0"
default_request_version == "HTTP/0.9"

(***************************************************************************)
(* The directory of the script: the files the server can see.  A path is   *)
(* the sequence of its components below the root.                          *)
(***************************************************************************)
File(content, readable) ==
    [type |-> "file", readable |-> readable, content |-> content]

Dir(listable) ==
    [type |-> "dir", readable |-> listable, content |-> ""]

FSPaths ==
    { <<>>, <<"index.html">>, <<"secret.txt">>,
      <<"sub">>, <<"sub", "a.txt">>,
      <<"site">>, <<"site", "index.htm">>,
      <<"locked">>,
      <<"vault">>, <<"vault", "index.html">> }

FS ==
    [p \in FSPaths |->
        CASE p = <<>>                      -> Dir(TRUE)
          [] p = <<"index.html">>          -> File("hello", TRUE)
          [] p = <<"secret.txt">>          -> File("classified", FALSE)
          [] p = <<"sub">>                 -> Dir(TRUE)
          [] p = <<"sub", "a.txt">>        -> File("x", TRUE)
          [] p = <<"site">>                -> Dir(TRUE)
          [] p = <<"site", "index.htm">>   -> File("home", TRUE)
          [] p = <<"locked">>              -> Dir(FALSE)
          [] p = <<"vault">>               -> Dir(TRUE)
          [] p = <<"vault", "index.html">> -> File("gold", FALSE)]

\* a file system path as translate_path returns it
FsPath(dir, comps, slash) == [dir |-> dir, comps |-> comps, slash |-> slash]

\* below the directory of the script the files are FS; the directory the
\* script was started from is some other directory, taken to be empty
exists(path) ==
    IF path.dir = "scriptdir" THEN path.comps \in FSPaths
    ELSE path.comps = <<>>

\* the entry of an existing path
stat(path) == IF path.dir = "scriptdir" THEN FS[path.comps] ELSE Dir(TRUE)

\* os.path.isdir: a trailing slash does not matter for a directory
isdir(path) == exists(path) /\ stat(path).type = "dir"

\* os.path.isfile: a regular file named with a trailing slash is ENOTDIR
isfile(path) ==
    exists(path) /\ stat(path).type = "file" /\ ~path.slash

\* open(path, 'rb') succeeds (otherwise it raises OSError)
can_open(path) ==
    exists(path) /\ stat(path).type = "file" /\ ~path.slash
        /\ stat(path).readable

\* os.listdir(path) succeeds; the names it returns
can_listdir(path) == isdir(path) /\ stat(path).readable

listdir(path) ==
    IF path.dir # "scriptdir" THEN {}
    ELSE { q[Len(q)] :
             q \in { r \in FSPaths : Len(r) = Len(path.comps) + 1
                        /\ SubSeq(r, 1, Len(path.comps)) = path.comps } }

\* os.path.join(path, name)
join(path, name) == FsPath(path.dir, Append(path.comps, name), FALSE)

(***************************************************************************)
(* Requests.  A request target is the list of its "/"-separated components *)
(* and whether it ends in "/"; the root "/" has no component.              *)
(***************************************************************************)
Target(comps, slash) == [comps |-> comps, slash |-> slash]

Targets ==
    { Target(<<>>, TRUE),
      Target(<<"index.html">>, FALSE), Target(<<"index.html">>, TRUE),
      Target(<<"nope">>, FALSE), Target(<<"nope">>, TRUE),
      Target(<<"secret.txt">>, FALSE),
      Target(<<"sub">>, FALSE), Target(<<"sub">>, TRUE),
      Target(<<"sub", "a.txt">>, FALSE),
      Target(<<"sub", "..", "index.html">>, FALSE),
      Target(<<"..", ".", "index.html">>, FALSE),
      Target(<<"site">>, TRUE),
      Target(<<"locked">>, TRUE),
      Target(<<"vault">>, TRUE) }

Methods == {"GET", "HEAD", "POST"}

Versions == {"HTTP/0.9", "HTTP/1.0", "HTTP/1.1", "HTTP/2.0", "HTTP/1.x"}

\* what follows the request line: nothing of interest, an If-Modified-Since
\* header (not older than the file, older, unparsable, or together with
\* If-None-Match), or a header section http.client.parse_headers rejects.
\* No Connection or Expect header is sent: with protocol_version HTTP/1.0
\* parse_request acts on neither keep-alive nor 100-continue.
HeaderCases ==
    {"none", "ims_fresh", "ims_stale", "ims_bad", "ims_fresh_inm",
     "line_too_long", "too_many"}

\* form of the request line: longer than 65536 bytes, end of file, no word,
\* one word, "METHOD target", "METHOD target VERSION", four words
Raw(form, method, target, version, hdr) ==
    [form |-> form, method |-> method, target |-> target,
     version |-> version, hdr |-> hdr]

NoTarget == Target(<<>>, TRUE)

RawRequests ==
    { Raw(f, "GET", NoTarget, "HTTP/1.0", "none") :
          f \in {"too_long", "eof", "blank", "w1"} }
    \cup { Raw("w2", m, t, "HTTP/0.9", h) :
          m \in Methods, t \in Targets, h \in HeaderCases }
    \cup { Raw("w3", m, t, v, h) :
          m \in Methods, t \in Targets, v \in Versions, h \in HeaderCases }
    \cup { Raw("w4", "GET", NoTarget, v, "none") : v \in Versions }

(***************************************************************************)
(* The request handler.  h is the handler object: the attributes           *)
(* parse_request sets, the header buffer, the items written to wfile, and  *)
(* the trace of the send_header / end_headers calls made on it.            *)
(***************************************************************************)
Item(t, k, v) == [t |-> t, k |-> k, v |-> v, ls |-> {}]

StatusLine(code, message) == Item("status", ToString(code), message)
Header(k, v) == Item("header", k, v)
BlankLine == Item("end", "", "")
Body(kind, data) == Item("body", kind, data)

\* the handler as StreamRequestHandler.setup leaves it
NewHandler ==
    [directory |-> "unset",
     request_version |-> "unset", command |-> "unset", path |-> NoTarget,
     hdr |-> "none", close_connection |-> TRUE,
     buf |-> <<>>, wire |-> <<>>, calls |-> <<>>]

\* BaseHTTPRequestHandler.send_response_only
send_response_only(h, code, message) ==
    IF h.request_version # "HTTP/0.9"
    THEN [h EXCEPT !.buf = Append(@, StatusLine(code, message))]
    ELSE h

\* BaseHTTPRequestHandler.send_header
send_header(h, keyword, value) ==
    LET h1 == [h EXCEPT !.calls = Append(@, keyword)]
        h2 == IF h.request_version # "HTTP/0.9"
              THEN [h1 EXCEPT !.buf = Append(@, Header(keyword, value))]
              ELSE h1
    IN  IF keyword = "Connection" /\ value = "close"
        THEN [h2 EXCEPT !.close_connection = TRUE]
        ELSE IF keyword = "Connection" /\ value = "keep-alive"
        THEN [h2 EXCEPT !.close_connection = FALSE]
        ELSE h2

\* BaseHTTPRequestHandler.flush_headers
flush_headers(h) == [h EXCEPT !.wire = @ \o h.buf, !.buf = <<>>]

\* BaseHTTPRequestHandler.end_headers
BaseHTTPRequestHandler_end_headers(h) ==
    LET h1 == [h EXCEPT !.calls = Append(@, "end_headers")]
    IN  IF h.request_version # "HTTP/0.9"
        THEN flush_headers([h1 EXCEPT !.buf = Append(@, BlankLine)])
        ELSE h1

\* A hook that ends the header block without adding anything.
end_headers_nothing_added(h) == BaseHTTPRequestHandler_end_headers(h)

\* A hook that adds its headers after the header block was ended.
end_headers_added_late(h) ==
    send_header(
        send_header(
            send_header(BaseHTTPRequestHandler_end_headers(h),
                        "Cache-Control", CacheControlValue),
            "Pragma", PragmaValue),
        "Expires", ExpiresValue)

\* A hook that replaces what the library buffered by its own headers.
end_headers_replacing(h) ==
    BaseHTTPRequestHandler_end_headers(
        send_header(
            send_header(
                send_header([h EXCEPT !.buf = <<>>],
                            "Cache-Control", CacheControlValue),
                "Pragma", PragmaValue),
            "Expires", ExpiresValue))

\* A hook that adds the headers and never calls super().end_headers().
end_headers_no_super(h) ==
    send_header(
        send_header(
            send_header(h, "Cache-Control", CacheControlValue),
            "Pragma", PragmaValue),
        "Expires", ExpiresValue)

\* NoCacheHandler.end_headers
end_headers(h) ==
    BaseHTTPRequestHandler_end_headers(
        send_header(
            send_header(
                send_header(h, "Cache-Control", CacheControlValue),
                "Pragma", PragmaValue),
            "Expires", ExpiresValue))

\* BaseHTTPRequestHandler.send_response (log_request writes to stderr only)
send_response(h, code, message) ==
    send_header(
        send_header(send_response_only(h, code, message),
                    "Server", "SimpleHTTP/0.6 Python"),
        "Date", "now")

\* BaseHTTPRequestHandler.responses[code][0]
ShortMessage(code) ==
    CASE code = 200 -> "OK"
      [] code = 301 -> "Moved Permanently"
      [] code = 304 -> "Not Modified"
      [] code = 400 -> "Bad Request"
      [] code = 404 -> "Not Found"
      [] code = 414 -> "Request-URI Too Long"
      [] code = 431 -> "Request Header Fields Too Large"
      [] code = 501 -> "Not Implemented"
      [] code = 505 -> "HTTP Version Not Supported"
      [] OTHER -> "???"

\* BaseHTTPRequestHandler.send_error
send_error(h, code, message) ==
    LET h1 == send_header(send_response(h, code, message),
                          "Connection", "close")
        hasBody == code >= 200 /\ code \notin {204, 205, 304}
        h2 == IF hasBody
              THEN send_header(
                       send_header(h1, "Content-Type",
                                   "text/html;charset=utf-8"),
                       "Content-Length", "len(body)")
              ELSE h1
        h3 == end_headers(h2)
    IN  IF h.command # "HEAD" /\ hasBody
        THEN [h3 EXCEPT !.wire = Append(@, Body("error", ToString(code)))]
        ELSE h3


(***************************************************************************)
(* Path translation and the GET / HEAD methods of                          *)
(* SimpleHTTPRequestHandler.                                               *)
(***************************************************************************)
RECURSIVE normpath_from(_, _)
\* posixpath.normpath on an absolute path: "." is dropped, ".." removes the
\* component before it and is dropped at the root
normpath_from(comps, acc) ==
    IF comps = <<>> THEN acc
    ELSE LET c == Head(comps)
             acc1 == CASE c = "." -> acc
                       [] c = ".." -> IF acc = <<>> THEN acc
                                      ELSE SubSeq(acc, 1, Len(acc) - 1)
                       [] OTHER -> Append(acc, c)
         IN  normpath_from(Tail(comps), acc1)

normpath(comps) == normpath_from(comps, <<>>)

IsSimpleName(word) == word \notin {".", ".."}

\* A translation that keeps the components as they were sent.
translate_path_raw(dir, target) == FsPath(dir, target.comps, target.slash)

\* SimpleHTTPRequestHandler.translate_path (self.directory is os.getcwd())
translate_path(dir, target) ==
    FsPath(dir, SelectSeq(normpath(target.comps), IsSimpleName), target.slash)

\* the file object send_head returns: None, or an open file with its bytes
NoneFile == [open |-> FALSE, kind |-> "", data |-> "", ls |-> {}]
OpenFile(kind, data, ls) ==
    [open |-> TRUE, kind |-> kind, data |-> data, ls |-> ls]

Result(f, h) == [f |-> f, h |-> h]

\* the entries of a generated listing: the name, and "/" after a directory
ListingOf(path) ==
    { [name |-> n, dir |-> isdir(join(path, n))] : n \in listdir(path) }

\* SimpleHTTPRequestHandler.list_directory
list_directory(h, path) ==
    IF ~can_listdir(path)
    THEN Result(NoneFile,
                send_error(h, 404, "No permission to list directory"))
    ELSE Result(OpenFile("listing", "", ListingOf(path)),
                end_headers(
                    send_header(
                        send_header(send_response(h, 200, ShortMessage(200)),
                                    "Content-type", "text/html; charset=utf-8"),
                        "Content-Length", "len(encoded)")))

\* the If-Modified-Since test of send_head: the header is there without
\* If-None-Match, it parses, and the file is not newer than it
NotModifiedSince(hdr) == hdr = "ims_fresh"

\* send_head from "ctype = self.guess_type(path)" on: path is not a directory
send_file(h, path) ==
    IF path.slash
    THEN Result(NoneFile, send_error(h, 404, "File not found"))
    ELSE IF ~can_open(path)
    THEN Result(NoneFile, send_error(h, 404, "File not found"))
    ELSE IF NotModifiedSince(h.hdr)
    THEN Result(NoneFile,
                end_headers(send_response(h, 304, ShortMessage(304))))
    ELSE Result(OpenFile("file", stat(path).content, {}),
                end_headers(
                    send_header(
                        send_header(
                            send_header(
                                send_response(h, 200, ShortMessage(200)),
                                "Content-type", "guess_type(path)"),
                            "Content-Length",
                            ToString(Len(stat(path).content))),
                        "Last-Modified", "mtime")))

\* SimpleHTTPRequestHandler.send_head
send_head(h) ==
    LET path == translate_path(h.directory, h.path)
    IN  IF isdir(path)
        THEN IF ~h.path.slash
             THEN Result(NoneFile,
                         end_headers(
                             send_header(
                                 send_header(
                                     send_response(h, 301, ShortMessage(301)),
                                     "Location", "self.path + '/'"),
                                 "Content-Length", "0")))
             ELSE IF isfile(join(path, "index.html"))
             THEN send_file(h, join(path, "index.html"))
             ELSE IF isfile(join(path, "index.htm"))
             THEN send_file(h, join(path, "index.htm"))
             ELSE list_directory(h, path)
        ELSE send_file(h, path)

\* SimpleHTTPRequestHandler.copyfile(f, self.wfile)
copyfile(f, h) ==
    [h EXCEPT !.wire = Append(@, [t |-> "body", k |-> f.kind, v |-> f.data,
                                  ls |-> f.ls])]

\* SimpleHTTPRequestHandler.do_GET
do_GET(h) ==
    LET r == send_head(h)
    IN  IF r.f.open THEN copyfile(r.f, r.h) ELSE r.h

\* SimpleHTTPRequestHandler.do_HEAD
do_HEAD(h) == send_head(h).h

(***************************************************************************)
(* Request parsing and dispatch of BaseHTTPRequestHandler.                 *)
(***************************************************************************)
\* the words of the request line
NumWords(form) ==
    CASE form = "blank" -> 0
      [] form = "w1" -> 1
      [] form = "w2" -> 2
      [] form = "w3" -> 3
      [] OTHER -> 4

\* the (major, minor) parse_request reads from the last word; <<>> when it
\* raises ValueError
VersionNumber(version) ==
    CASE version = "HTTP/0.9" -> <<0, 9>>
      [] version = "HTTP/1.0" -> <<1, 0>>
      [] version = "HTTP/1.1" -> <<1, 1>>
      [] version = "HTTP/2.0" -> <<2, 0>>
      [] OTHER -> <<>>

\* version_number >= (major, minor)
VersionAtLeast(vn, major, minor) ==
    vn[1] > major \/ (vn[1] = major /\ vn[2] >= minor)

Parsed(ok, h) == [ok |-> ok, h |-> h]

\* BaseHTTPRequestHandler.parse_request
parse_request(h0, raw) ==
    LET h == [h0 EXCEPT !.command = "None",
                        !.request_version = default_request_version,
                        !.close_connection = TRUE]
        n == NumWords(raw.form)
        vn == VersionNumber(raw.version)
    IN  IF n = 0 THEN Parsed(FALSE, h)
        ELSE IF n >= 3 /\ vn = <<>>
        THEN Parsed(FALSE, send_error(h, 400, "Bad request version"))
        ELSE IF n >= 3 /\ VersionAtLeast(vn, 2, 0)
        THEN Parsed(FALSE, send_error(
                 [h EXCEPT !.close_connection =
                      ~(VersionAtLeast(vn, 1, 1)
                        /\ protocol_version = "HTTP/1.1")],
                 505, "Invalid HTTP version"))
        ELSE
        LET h1 == IF n >= 3
                  THEN [h EXCEPT !.request_version = raw.version,
                                 !.close_connection =
                                     ~(VersionAtLeast(vn, 1, 1)
                                       /\ protocol_version = "HTTP/1.1")]
                  ELSE h
        IN  IF n \notin 2..3
            THEN Parsed(FALSE, send_error(h1, 400, "Bad request syntax"))
            ELSE IF n = 2 /\ raw.method # "GET"
            THEN Parsed(FALSE,
                        send_error(h1, 400, "Bad HTTP/0.9 request type"))
            ELSE
            LET h2 == [h1 EXCEPT !.command = raw.method,
                                 !.path = raw.target,
                                 !.close_connection =
                                     IF n = 2 THEN TRUE ELSE @]
            IN  IF raw.hdr = "line_too_long"
                THEN Parsed(FALSE, send_error(h2, 431, "Line too long"))
                ELSE IF raw.hdr = "too_many"
                THEN Parsed(FALSE, send_error(h2, 431, "Too many headers"))
                ELSE Parsed(TRUE, [h2 EXCEPT !.hdr = raw.hdr])

\* hasattr(self, 'do_' + self.command)
HasMethod(command) == command \in {"GET", "HEAD"}

\* BaseHTTPRequestHandler.handle_one_request
handle_one_request(h0, raw) ==
    IF raw.form = "too_long"
    THEN send_error([h0 EXCEPT !.request_version = "", !.command = ""],
                    414, ShortMessage(414))
    ELSE IF raw.form = "eof"
    THEN [h0 EXCEPT !.close_connection = TRUE]
    ELSE LET r == parse_request(h0, raw)
         IN  IF ~r.ok THEN r.h
             ELSE IF ~HasMethod(r.h.command)
             THEN send_error(r.h, 501, "Unsupported method")
             ELSE IF r.h.command = "GET" THEN do_GET(r.h)
             ELSE do_HEAD(r.h)


\* SimpleHTTPRequestHandler.__init__ (directory = os.getcwd()) followed by
\* BaseHTTPRequestHandler.handle: close_connection is True after every
\* request because protocol_version is HTTP/1.0, so the loop runs once
handle(cwd_now, raw) ==
    handle_one_request([NewHandler EXCEPT !.directory = cwd_now], raw)

(***************************************************************************)
(* The processes.  Each instance of the script runs line 6 (chdir), line   *)
(* 15 (print) and line 16 (HTTPServer(...), then serve_forever()).         *)
(***************************************************************************)
Instances == {"first", "second"}

VARIABLES
    pc,         \* where each instance is
    cwd,        \* its working directory
    chdirs,     \* how often it has called os.chdir
    stdout,     \* the lines it has printed
    sock,       \* its listening socket
    binds,      \* how often it has bound a listening socket
    pending,    \* connections waiting in the listen queue of port 8000
    active,     \* requests each instance is handling
    conn,       \* the connection an instance has answered and not yet closed
    hadError    \* whether an instance has answered a request with an error

vars == <<pc, cwd, chdirs, stdout, sock, binds, pending, active, conn,
          hadError>>

NoSocket == [state |-> "none", host |-> "", port |-> 0]
ListeningSocket(host, port) ==
    [state |-> "listening", host |-> host, port |-> port]
ClosedSocket(s) == [s EXCEPT !.state = "closed"]

NoConn ==
    [open |-> FALSE, raw |-> Raw("eof", "GET", NoTarget, "HTTP/1.0", "none"),
     wire |-> <<>>, calls |-> <<>>, raised |-> FALSE]

\* a socket of some instance listens on the port
PortInUse(port) ==
    \E q \in Instances : sock[q].state = "listening" /\ sock[q].port = port

Init ==
    /\ pc = [p \in Instances |-> "L6"]
    /\ cwd = [p \in Instances |-> "elsewhere"]
    /\ chdirs = [p \in Instances |-> 0]
    /\ stdout = [p \in Instances |-> <<>>]
    /\ sock = [p \in Instances |-> NoSocket]
    /\ binds = [p \in Instances |-> 0]
    /\ pending = 0
    /\ active = [p \in Instances |-> 0]
    /\ conn = [p \in Instances |-> NoConn]
    /\ hadError = [p \in Instances |-> FALSE]

\* A start-up that calls os.chdir(os.path.dirname(__file__)) with a relative
\* __file__: the directory name is empty and the process stays where it was.
Chdir_stays(p) ==
    /\ pc[p] = "L6"
    /\ chdirs' = [chdirs EXCEPT ![p] = @ + 1]
    /\ pc' = [pc EXCEPT ![p] = "L15"]
    /\ UNCHANGED <<cwd, stdout, sock, binds, pending, active, conn, hadError>>

\* line 6: os.chdir(os.path.dirname(os.path.abspath(__file__)))
Chdir(p) ==
    /\ pc[p] = "L6"
    /\ cwd' = [cwd EXCEPT ![p] = "scriptdir"]
    /\ chdirs' = [chdirs EXCEPT ![p] = @ + 1]
    /\ pc' = [pc EXCEPT ![p] = "L15"]
    /\ UNCHANGED <<stdout, sock, binds, pending, active, conn, hadError>>

\* A start-up that prints its message only once the server object exists:
\* nothing is printed before line 16.
PrintStartup_after_bind(p) ==
    /\ pc[p] = "L15"
    /\ pc' = [pc EXCEPT ![p] = "L16"]
    /\ UNCHANGED <<cwd, chdirs, stdout, sock, binds, pending, active, conn,
                   hadError>>

\* line 15: print("Server running at http://localhost:8000")
PrintStartup(p) ==
    /\ pc[p] = "L15"
    /\ stdout' = [stdout EXCEPT ![p] = Append(@, StartupMessage)]
    /\ pc' = [pc EXCEPT ![p] = "L16"]
    /\ UNCHANGED <<cwd, chdirs, sock, binds, pending, active, conn, hadError>>

\* A server class with allow_reuse_port: bind succeeds on a port in use.
HTTPServer_init_reuse_port(p) ==
    /\ pc[p] = "L16"
    /\ sock' = [sock EXCEPT ![p] = ListeningSocket(HOST, PORT)]
    /\ binds' = [binds EXCEPT ![p] = @ + 1]
    /\ pc' = [pc EXCEPT ![p] = "serving"]
    /\ UNCHANGED <<cwd, chdirs, stdout, pending, active, conn, hadError>>

\* line 16, HTTPServer(('', 8000), NoCacheHandler): TCPServer.__init__ binds
\* and listens; when bind raises OSError the socket is closed, the exception
\* leaves the script and the process ends
HTTPServer_init(p) ==
    /\ pc[p] = "L16"
    /\ IF PortInUse(PORT)
       THEN /\ sock' = [sock EXCEPT ![p] = ClosedSocket(NoSocket)]
            /\ pc' = [pc EXCEPT ![p] = "crashed"]
            /\ UNCHANGED binds
       ELSE /\ sock' = [sock EXCEPT ![p] = ListeningSocket(HOST, PORT)]
            /\ binds' = [binds EXCEPT ![p] = @ + 1]
            /\ pc' = [pc EXCEPT ![p] = "serving"]
    /\ UNCHANGED <<cwd, chdirs, stdout, pending, active, conn, hadError>>

\* a client connects to port 8000: the connection waits in the listen queue
ClientConnect ==
    /\ PortInUse(PORT)
    /\ pending < MaxPending
    /\ pending' = pending + 1
    /\ UNCHANGED <<pc, cwd, chdirs, stdout, sock, binds, active, conn,
                   hadError>>

\* A ThreadingHTTPServer: process_request hands the connection to a new
\* thread and the accept loop goes on.
process_request_threaded(p) ==
    /\ pc[p] = "serving"
    /\ sock[p].state = "listening"
    /\ pending > 0
    /\ pending' = pending - 1
    /\ active' = [active EXCEPT ![p] = @ + 1]
    /\ UNCHANGED <<pc, cwd, chdirs, stdout, sock, binds, conn, hadError>>

\* serve_forever: the selector reports the socket readable,
\* _handle_request_noblock accepts the connection (get_request) and
\* process_request starts to handle it in the same thread
process_request(p) ==
    /\ pc[p] = "serving"
    /\ sock[p].state = "listening"
    /\ pending > 0
    /\ pending' = pending - 1
    /\ active' = [active EXCEPT ![p] = @ + 1]
    /\ pc' = [pc EXCEPT ![p] = "handling"]
    /\ UNCHANGED <<cwd, chdirs, stdout, sock, binds, conn, hadError>>

\* what was written when the last write to wfile raised
LastWriteLost(wire) ==
    IF wire = <<>> THEN wire ELSE SubSeq(wire, 1, Len(wire) - 1)

\* An accept loop without the "except Exception" clause: an exception of
\* the handler leaves serve_forever and ends the process.
AfterRequest_uncaught(raised) == IF raised THEN "crashed" ELSE "closing"

\* _handle_request_noblock after process_request: an Exception raised by
\* the handler is reported by handle_error and the connection is shut down
AfterRequest(raised) == "closing"

\* finish_request: NoCacheHandler(request, client_address, server) reads
\* the request and writes the response; reading or writing may raise (the
\* client reset the connection)
finish_request(p) ==
    /\ pc[p] = "handling"
    /\ \E raw \in RawRequests, fault \in {"none", "read", "write"} :
          LET h == handle(cwd[p], raw)
          IN  /\ fault = "write" => h.wire # <<>>
              /\ conn' = [conn EXCEPT ![p] =
                  [open |-> TRUE, raw |-> raw,
                   wire |-> CASE fault = "none" -> h.wire
                              [] fault = "read" -> <<>>
                              [] OTHER -> LastWriteLost(h.wire),
                   calls |-> IF fault = "read" THEN <<>> ELSE h.calls,
                   raised |-> fault # "none"]]
              /\ pc' = [pc EXCEPT ![p] = AfterRequest(fault # "none")]
    /\ UNCHANGED <<cwd, chdirs, stdout, sock, binds, pending, active,
                   hadError>>


\* the status code of a response; 0 when it has no status line
StatusOf(wire) ==
    IF wire # <<>> /\ wire[1].t = "status"
    THEN CHOOSE c \in 100..599 : ToString(c) = wire[1].k
    ELSE 0

\* the request was answered with an error: an error status, an error page
\* without status line, or an exception in the handler
IsError(c) ==
    \/ c.raised
    \/ StatusOf(c.wire) >= 400
    \/ \E i \in 1..Len(c.wire) : c.wire[i].t = "body" /\ c.wire[i].k = "error"

\* process_request / _handle_request_noblock: shutdown_request(request)
shutdown_request(p) ==
    /\ pc[p] = "closing"
    /\ conn' = [conn EXCEPT ![p] = NoConn]
    /\ active' = [active EXCEPT ![p] = @ - 1]
    /\ hadError' = [hadError EXCEPT ![p] = @ \/ IsError(conn[p])]
    /\ pc' = [pc EXCEPT ![p] = "serving"]
    /\ UNCHANGED <<cwd, chdirs, stdout, sock, binds, pending>>

\* the process is terminated from outside (a signal): its sockets are
\* closed by the operating system
Kill(p) ==
    /\ pc[p] \notin {"crashed", "killed"}
    /\ pc' = [pc EXCEPT ![p] = "killed"]
    /\ sock' = [sock EXCEPT ![p] =
                   IF @.state = "listening" THEN ClosedSocket(@) ELSE @]
    /\ pending' = IF sock[p].state = "listening" THEN 0 ELSE pending
    /\ active' = [active EXCEPT ![p] = 0]
    /\ conn' = [conn EXCEPT ![p] = NoConn]
    /\ UNCHANGED <<cwd, chdirs, stdout, binds, hadError>>

Next ==
    \/ \E p \in Instances : Chdir(p)
    \/ \E p \in Instances : PrintStartup(p)
    \/ \E p \in Instances : HTTPServer_init(p)
    \/ ClientConnect
    \/ \E p \in Instances : process_request(p)
    \/ \E p \in Instances : finish_request(p)
    \/ \E p \in Instances : shutdown_request(p)
    \/ \E p \in Instances : Kill(p)

Spec == Init /\ [][Next]_vars


(***************************************************************************)
(* Vocabulary of the properties.                                           *)
(***************************************************************************)
ServeLoop == {"serving", "handling", "closing"}

\* a response was returned: something reached the client
Returned(c) == c.open /\ c.wire # <<>>

HasHeader(wire, k, v) == \E i \in 1..Len(wire) : wire[i] = Header(k, v)

NoCacheHeaders(wire) ==
    /\ HasHeader(wire, "Cache-Control", CacheControlValue)
    /\ HasHeader(wire, "Pragma", PragmaValue)
    /\ HasHeader(wire, "Expires", ExpiresValue)

Bodies(wire) == { i \in 1..Len(wire) : wire[i].t = "body" }

\* the response ends in exactly one body, which is b
BodyIs(wire, b) ==
    Bodies(wire) = {Len(wire)} /\ wire # <<>> /\ wire[Len(wire)] = b

FileBody(content) == [t |-> "body", k |-> "file", v |-> content, ls |-> {}]
ListingBody(ls) == [t |-> "body", k |-> "listing", v |-> "", ls |-> ls]

\* the request line has a method, a target and possibly a version
HasTarget(raw) == raw.form \in {"w2", "w3"}

\* "METHOD target HTTP/1.0" or "... HTTP/1.1" with a header section the
\* parser accepts
IsHttp1(raw) ==
    /\ raw.form = "w3"
    /\ raw.version \in {"HTTP/1.0", "HTTP/1.1"}
    /\ raw.hdr \notin {"line_too_long", "too_many"}

\* the request line is over-long, or has at least three words of which the
\* last is HTTP/1.0 or HTTP/1.1
AnsweredWithHeaders(raw) ==
    \/ raw.form = "too_long"
    \/ /\ raw.form \in {"w3", "w4"}
       /\ raw.version \in {"HTTP/1.0", "HTTP/1.1"}

\* the file or directory below the script's directory a target names
Named(t) == SelectSeq(normpath(t.comps), IsSimpleName)

MapsToReadableFile(t) ==
    /\ ~t.slash
    /\ Named(t) \in FSPaths
    /\ FS[Named(t)].type = "file"
    /\ FS[Named(t)].readable

MapsToNothing(t) == Named(t) \notin FSPaths

MapsToDirectory(t) == Named(t) \in FSPaths /\ FS[Named(t)].type = "dir"

\* the index file of a directory: index.html, else index.htm, else <<>>
IndexOf(d) ==
    IF Append(d, "index.html") \in FSPaths
           /\ FS[Append(d, "index.html")].type = "file"
    THEN Append(d, "index.html")
    ELSE IF Append(d, "index.htm") \in FSPaths
           /\ FS[Append(d, "index.htm")].type = "file"
    THEN Append(d, "index.htm")
    ELSE <<>>

\* If-Modified-Since names a date the file is not newer than, and no
\* If-None-Match comes with it
Conditional(raw) == raw.hdr = "ims_fresh"

(***************************************************************************)
(* C1                                                                      *)
(***************************************************************************)
\* C1 as stated: every response the server returns, success or error,
\* carries Cache-Control: no-store, no-cache, must-revalidate, max-age=0,
\* Pragma: no-cache and Expires: 0.
C1_EveryResponseNoCache ==
    \A p \in Instances :
        Returned(conn[p]) => NoCacheHeaders(conn[p].wire)

\* C1 (amended): every response to a request line that is over-long, or
\* that ends, as its third or later word, in the version HTTP/1.0 or
\* HTTP/1.1, carries the three no-cache headers; the response to a request
\* line of one or two words, or one whose last word is HTTP/0.9, a malformed
\* version or a version from 2.0 on, is a body without any header.
C1_NoCacheOnHeaderedResponses ==
    \A p \in Instances :
        Returned(conn[p]) =>
            /\ AnsweredWithHeaders(conn[p].raw)
                   <=> NoCacheHeaders(conn[p].wire)
            /\ ~AnsweredWithHeaders(conn[p].raw)
                   => \A i \in 1..Len(conn[p].wire) :
                          conn[p].wire[i].t = "body"

\* an error response generated by the library that carries the headers
C1_Witness ==
    \E p \in Instances :
        /\ Returned(conn[p])
        /\ StatusOf(conn[p].wire) = 404
        /\ NoCacheHeaders(conn[p].wire)

(***************************************************************************)
(* C2                                                                      *)
(***************************************************************************)
\* C2 as stated: every request whose path maps to an existing readable file
\* is answered with status 200 and the bytes of the file.
C2_EveryRequestForFile ==
    \A p \in Instances :
        ( /\ conn[p].open /\ ~conn[p].raised
          /\ HasTarget(conn[p].raw)
          /\ MapsToReadableFile(conn[p].raw.target) )
        => /\ StatusOf(conn[p].wire) = 200
           /\ BodyIs(conn[p].wire,
                     FileBody(FS[Named(conn[p].raw.target)].content))

\* C2 (amended): every GET request sent as HTTP/1.0 or HTTP/1.1 whose path
\* maps to an existing readable file, and which does not carry an
\* If-Modified-Since date the file is not newer than, is answered with
\* status 200 and a body identical to the file.
C2_GetFile ==
    \A p \in Instances :
        ( /\ conn[p].open /\ ~conn[p].raised
          /\ IsHttp1(conn[p].raw)
          /\ conn[p].raw.method = "GET"
          /\ ~Conditional(conn[p].raw)
          /\ MapsToReadableFile(conn[p].raw.target) )
        => /\ StatusOf(conn[p].wire) = 200
           /\ BodyIs(conn[p].wire,
                     FileBody(FS[Named(conn[p].raw.target)].content))

\* GET /index.html HTTP/1.1 was answered 200 with body "hello"
C2_Witness ==
    \E p \in Instances :
        /\ conn[p].open /\ ~conn[p].raised
        /\ conn[p].raw = Raw("w3", "GET", Target(<<"index.html">>, FALSE),
                             "HTTP/1.1", "none")
        /\ StatusOf(conn[p].wire) = 200
        /\ BodyIs(conn[p].wire, FileBody("hello"))

(***************************************************************************)
(* C3                                                                      *)
(***************************************************************************)
\* C3 as stated: every request whose path maps to no file and no directory
\* is answered with status 404 and the three no-cache headers.
C3_EveryRequestForNothing ==
    \A p \in Instances :
        ( /\ conn[p].open /\ ~conn[p].raised
          /\ HasTarget(conn[p].raw)
          /\ MapsToNothing(conn[p].raw.target) )
        => /\ StatusOf(conn[p].wire) = 404
           /\ NoCacheHeaders(conn[p].wire)

\* C3 (amended): every GET or HEAD request sent as HTTP/1.0 or HTTP/1.1
\* whose path maps to no file and no directory is answered with status 404
\* and the three no-cache headers.
C3_NotFound ==
    \A p \in Instances :
        ( /\ conn[p].open /\ ~conn[p].raised
          /\ IsHttp1(conn[p].raw)
          /\ conn[p].raw.method \in {"GET", "HEAD"}
          /\ MapsToNothing(conn[p].raw.target) )
        => /\ StatusOf(conn[p].wire) = 404
           /\ NoCacheHeaders(conn[p].wire)

\* HEAD /nope HTTP/1.0 was answered 404 with the headers
C3_Witness ==
    \E p \in Instances :
        /\ conn[p].open /\ ~conn[p].raised
        /\ conn[p].raw = Raw("w3", "HEAD", Target(<<"nope">>, FALSE),
                             "HTTP/1.0", "none")
        /\ StatusOf(conn[p].wire) = 404
        /\ NoCacheHeaders(conn[p].wire)

(***************************************************************************)
(* C4                                                                      *)
(***************************************************************************)
\* the response is the generated listing of directory d, or the bytes of
\* its index file
ListingOrIndex(wire, d) ==
    IF IndexOf(d) = <<>>
    THEN BodyIs(wire, ListingBody(ListingOf(FsPath("scriptdir", d, TRUE))))
    ELSE BodyIs(wire, FileBody(FS[IndexOf(d)].content))

Servable(d) ==
    IF IndexOf(d) = <<>> THEN FS[d].readable ELSE FS[IndexOf(d)].readable

Listening(p) == sock[p].state = "listening" /\ sock[p].port = PORT

\* C5: while one instance listens on port 8000, the start of another
\* instance fails: its bind step ends the process, which never serves and
\* never handles a request, and the first instance keeps its socket and its
\* place in the serve loop.
C5_SecondInstanceFails ==
    [][ \A p \in Instances : \A q \in Instances \ {p} :
          /\ ( Listening(q) /\ pc[p] = "L16" /\ pc'[p] \notin {"L16", "killed"} )
             => /\ pc'[p] = "crashed"
                /\ ~Listening(p)'
                /\ Listening(q)' /\ pc'[q] = pc[q]
          /\ pc[p] = "crashed"
             => /\ pc'[p] = "crashed"
                /\ binds'[p] = 0 /\ active'[p] = 0 /\ ~conn'[p].open
          /\ ~(Listening(p)' /\ Listening(q)')
      ]_vars

\* the second instance has failed at start-up while the first answers a
\* request
C5_Witness ==
    /\ pc["second"] = "crashed"
    /\ Listening("first")
    /\ pc["first"] = "closing"
    /\ conn["first"].open

(***************************************************************************)
(* C6                                                                      *)
(***************************************************************************)
\* C6: an instance that has answered a request with an error (an error
\* response, or an exception in the handler) and has not been terminated
\* from outside is still in the serve loop with its listening socket, so it
\* accepts the next connection.
C6_ErrorsKeepServing ==
    \A p \in Instances :
        ( /\ hadError[p] \/ (conn[p].open /\ IsError(conn[p]))
          /\ pc[p] # "killed" )
        => /\ pc[p] \in ServeLoop
           /\ Listening(p)
           /\ pc[p] = "closing" => conn[p].open

\* after an error an instance has answered a further request with 200
C6_Witness ==
    \E p \in Instances :
        /\ hadError[p]
        /\ conn[p].open /\ ~conn[p].raised
        /\ StatusOf(conn[p].wire) = 200

(***************************************************************************)
(* C7                                                                      *)
(***************************************************************************)
\* C7: the working directory and the listening socket are each set exactly
\* once, before any request is handled: an instance in the serve loop has
\* called chdir once and bound once, is in the directory of the script and
\* listens on port 8000 of all interfaces; and no step of an instance that
\* stays in the serve loop changes either of them.
C7_SetOnceAtStartup ==
    /\ [](\A p \in Instances :
            /\ chdirs[p] <= 1 /\ binds[p] <= 1
            /\ ( pc[p] \in ServeLoop \/ active[p] > 0 \/ conn[p].open )
               => /\ chdirs[p] = 1 /\ binds[p] = 1
                  /\ cwd[p] = "scriptdir"
                  /\ sock[p] = ListeningSocket(HOST, PORT))
    /\ [][ \A p \in Instances :
             ( pc[p] \in ServeLoop /\ pc'[p] \in ServeLoop )
             => /\ cwd'[p] = cwd[p] /\ sock'[p] = sock[p]
                /\ chdirs'[p] = chdirs[p] /\ binds'[p] = binds[p]
         ]_vars

\* an instance has answered a request and its directory and socket are
\* those of the start-up
C7_Witness ==
    \E p \in Instances :
        /\ hadError[p] /\ conn[p].open
        /\ cwd[p] = "scriptdir" /\ chdirs[p] = 1
        /\ sock[p] = ListeningSocket(HOST, PORT) /\ binds[p] = 1

(***************************************************************************)
(* C8                                                                      *)
(***************************************************************************)
\* C8: an instance in the serve loop stays in it unless the process is
\* terminated from outside, and it never handles more than one request at a
\* time: a connection is accepted only while none is being handled.
C8_OneStateOneRequest ==
    /\ [](\A p \in Instances :
            /\ active[p] <= 1
            /\ active[p] = 1 <=> pc[p] \in {"handling", "closing"})
    /\ [][ \A p \in Instances :
             /\ pc[p] \in ServeLoop
                => pc'[p] \in ServeLoop \/ (pc'[p] = "killed" /\ Kill(p))
             /\ active'[p] > active[p] => active[p] = 0
         ]_vars

\* a connection waits in the listen queue while another is being handled
C8_Witness ==
    \E p \in Instances :
        pc[p] = "handling" /\ active[p] = 1 /\ pending > 0

(***************************************************************************)
(* C9                                                                      *)
(***************************************************************************)
\* C9: an instance prints the start-up message exactly once, after its
\* chdir and before it binds: an instance at or past line 16 that was not
\* killed has printed exactly the message, also when its bind has failed;
\* and the step that prints is taken with the directory changed and no
\* socket bound.
C9_MessageOnceBeforeBind ==
    /\ [](\A p \in Instances :
            /\ Len(stdout[p]) <= 1
            /\ pc[p] \in {"L6", "L15"} => stdout[p] = <<>>
            /\ pc[p] \in ({"L16", "crashed"} \cup ServeLoop)
               => stdout[p] = <<StartupMessage>>)
    /\ [][ \A p \in Instances :
             stdout'[p] # stdout[p]
             => /\ chdirs[p] = 1 /\ cwd[p] = "scriptdir"
                /\ binds[p] = 0 /\ sock[p] = NoSocket
         ]_vars

\* an instance whose bind failed has printed the message
C9_Witness ==
    \E p \in Instances :
        /\ pc[p] = "crashed" /\ binds[p] = 0
        /\ stdout[p] = <<StartupMessage>>

(***************************************************************************)
(* C10                                                                     *)
(***************************************************************************)
Count(seq, x) == Cardinality({ i \in 1..Len(seq) : seq[i] = x })

NoCacheKeys == {"Cache-Control", "Pragma", "Expires"}

\* the calls made on the handler: the last one ends the headers, the three
\* before it add Cache-Control, Pragma and Expires, each added once
HookCalls(calls) ==
    LET n == Len(calls)
    IN  calls # <<>> =>
            /\ n >= 4
            /\ Count(calls, "end_headers") = 1
            /\ calls[n] = "end_headers"
            /\ calls[n - 3] = "Cache-Control"
            /\ calls[n - 2] = "Pragma"
            /\ calls[n - 1] = "Expires"
            /\ \A k \in NoCacheKeys : Count(calls, k) = 1

\* a header block on the wire: the status line, then every header the
\* library sent, in the order it sent them, then the three headers with
\* their values, then the blank line
HeaderBlock(wire, calls) ==
    \A i \in 1..Len(wire) :
        wire[i].t = "end" =>
            /\ i = Len(calls) + 1
            /\ i >= 5
            /\ wire[1].t = "status"
            /\ \A j \in 2..(i - 1) :
                   wire[j].t = "header" /\ wire[j].k = calls[j - 1]
            /\ wire[i - 3] = Header("Cache-Control", CacheControlValue)
            /\ wire[i - 2] = Header("Pragma", PragmaValue)
            /\ wire[i - 1] = Header("Expires", ExpiresValue)
            /\ \A j \in (i + 1)..Len(wire) : wire[j].t = "body"

\* C10: within one response the hook adds Cache-Control, Pragma and Expires
\* exactly once each, in this order, after every header the library sent
\* and immediately before the header block is ended; the headers of the
\* library all remain, in their order.
C10_HookAddsOnceInOrder ==
    \A p \in Instances :
        conn[p].open =>
            /\ HookCalls(conn[p].calls)
            /\ HeaderBlock(conn[p].wire, conn[p].calls)

\* a 200 response with the library's five headers followed by the three
C10_Witness ==
    \E p \in Instances :
        /\ conn[p].open /\ ~conn[p].raised
        /\ StatusOf(conn[p].wire) = 200
        /\ Len(conn[p].wire) = 11
        /\ conn[p].wire[2].k = "Server"
        /\ conn[p].wire[6].k = "Last-Modified"
        /\ conn[p].wire[7].k = "Cache-Control"
        /\ conn[p].wire[10].t = "end"

=============================================================================
